---- MODULE Spec2Model ----
(***************************************************************************)
(* hono-mcp-server: the cached documentation fetch (fetchHonoDocs), the    *)
(* three documentation tools built on it, the line search of               *)
(* search-hono-docs, the pagination of get-hono-page, the heading outline  *)
(* of list-sections and the /mcp route of the singleton variants.          *)
(*                                                                         *)
(* Spec         : concurrent tool invocations over the shared cache        *)
(* SpecSearch   : the search loop of search-hono-docs, one line per step   *)
(* SpecCase     : the same loop over lines that differ in letter case      *)
(* SpecPage     : a client following nextOffset through get-hono-page      *)
(* SpecSections : the heading loop of list-sections, one line per step     *)
(* SpecTools    : one invocation of search-hono-docs or of list-sections   *)
(* SpecMcp      : HTTP requests to /mcp over the global server             *)
(***************************************************************************)
EXTENDS Integers, Sequences, FiniteSets, TLC

\* ------------------------------------------------------------------ bounds
NumProcs == 2        \* tool invocations that may overlap
MaxLines == 3        \* lines of the index text given to the search
MaxLimit == 2        \* largest `limit` argument tried
MaxTextLen == 4      \* code units of a page's markdown
MaxPageChars == 2    \* largest maxChars tried (the schema's 1000..120000, scaled)
MaxDocLines == 3     \* lines of the page list-sections reads
NumReqs == 2         \* HTTP requests that reach /mcp

\* --------------------------------------------------------- program constants
cacheTtl == 3600     \* fetchHonoDocs(url, cacheTtl = 3600)

\* ------------------------------------------------------------------- state
VARIABLES
  cache,        \* caches.default: URL -> stored response, or NoResponse
  origin,       \* what the origin currently answers for each URL
  stable,       \* history: the origin's answer for the URL never changed
  served,       \* history: the responses the origin gave to fetches, per URL
  originCalls,  \* history: fetch(url) calls issued, per URL
  lastWriter,   \* history: the invocation whose cache.put completed last, per URL
  pc,           \* where each invocation is suspended
  tool,         \* the tool each invocation runs
  url,          \* the URL it passes to fetchHonoDocs
  response,     \* fetchHonoDocs' local `response`
  log,          \* history: the cache and origin operations of the invocation
  ret,          \* what fetchHonoDocs returned or threw
  out,          \* what the tool handler returned or threw
  prior,        \* history: the invocations already finished when this one began
  text, lines, query, limit, idx, results, hits, examined, sout, spc,   \* the search loop
  md, maxChars, offset, acc, pages, page, ppc,   \* the pagination chain
  smd, dlines, didx, sections, secFrom, lout, lpc,   \* the list-sections loop
  variant,      \* which singleton variant of the worker is deployed
  registry,     \* the names registered on the global mcpServer
  isConnected,  \* the module-level flag of the singleton-transport variant
  connectCalls, \* history: calls of mcpServer.connect made so far
  connectsDone, \* history: calls of mcpServer.connect that have resolved
  rq,           \* where each HTTP request's handler is suspended
  req           \* the JSON-RPC method each HTTP request carries

fetchVars == <<cache, origin, stable, served, originCalls, lastWriter,
               pc, tool, url, response, log, ret, out, prior>>
searchVars == <<text, lines, query, limit, idx, results, hits, examined, sout, spc>>
pageVars == <<md, maxChars, offset, acc, pages, page, ppc>>
sectionVars == <<smd, dlines, didx, sections, secFrom, lout, lpc>>
mcpVars == <<variant, registry, isConnected, connectCalls, connectsDone, rq, req>>
vars == <<fetchVars, searchVars, pageVars, sectionVars, mcpVars>>

\* ============================================================ fetchHonoDocs
Procs == 1..NumProcs
IndexUrl == "https://hono.dev/llms.txt"
PageUrl == "https://raw.githubusercontent.com/honojs/website/main/docs/a.md"
Urls == {IndexUrl, PageUrl}
Tools == {"search-hono-docs", "get-hono-page", "list-sections"}

\* The URL each tool hands to fetchHonoDocs.
ToolUrl(t) == IF t = "search-hono-docs" THEN IndexUrl ELSE PageUrl

NoResponse == [body |-> "none", status |-> 0, cc |-> <<>>]
\* The answers the origin may give: two successful ones with different
\* bodies and Cache-Control headers, and a failure.
OriginResponses ==
  { [body |-> "b1", status |-> 200, cc |-> <<"no-store">>],
    [body |-> "b2", status |-> 203, cc |-> <<>>],
    [body |-> "e1", status |-> 404, cc |-> <<>>] }

\* Response.ok
IsOkLoose(r) == r.status >= 200
IsOk(r) == r.status >= 200 /\ r.status <= 299

\* cache.match(cacheKey)
CacheMatchMiss(c, u) == NoResponse
CacheMatch(c, u) == c[u]

\* if (!response): the origin is contacted only on a miss
NeedsFetchAlways(m) == TRUE
NeedsFetch(m) == m = NoResponse

\* if (response.ok): only a successful response is stored
ShouldStoreAlways(r) == TRUE
ShouldStore(r) == IsOk(r)

\* new Response(cloned.body, {status, statusText, headers}) with
\* headers.set("Cache-Control", `public, max-age=${cacheTtl}`)
CachedResponseKeepCC(r, ttl) == r
CachedResponseNoClone(r, ttl) ==
  [body |-> "", status |-> r.status, cc |-> <<"public", "max-age", ttl>>]
CachedResponse(r, ttl) ==
  [body |-> r.body, status |-> r.status, cc |-> <<"public", "max-age", ttl>>]

\* cache.put(cacheKey, cachedResponse): overwrites whatever is stored
CachePutAnyKey(c, u, e) == [k \in DOMAIN c |-> e]
CachePutIfAbsent(c, u, e) == IF c[u] = NoResponse THEN [c EXCEPT ![u] = e] ELSE c
CachePut(c, u, e) == [c EXCEPT ![u] = e]

\* response.text()
Text(r) == r.body

Returned(b) == [kind |-> "text", body |-> b]
Thrown == [kind |-> "throw", body |-> "none"]
NoReturn == [kind |-> "none", body |-> "none"]

\* The tool handler around `await fetchHonoDocs(...)`: get-hono-page and
\* list-sections wrap it in try/catch, search-hono-docs does not.
HasTryCatch(t) == t \in {"get-hono-page", "list-sections"}
NoOut == [shape |-> "none", kind |-> "none", body |-> "none"]
ToolResult(t, r) ==
  IF r.kind = "text"
    THEN [shape |-> "content", kind |-> "text", body |-> r.body]
    ELSE IF HasTryCatch(t)
      THEN [shape |-> "content", kind |-> "error-message", body |-> "none"]
      ELSE [shape |-> "fault", kind |-> "none", body |-> "none"]

FetchInit ==
  /\ cache = [u \in Urls |-> NoResponse]
  /\ origin \in [Urls -> OriginResponses]
  /\ stable = [u \in Urls |-> TRUE]
  /\ served = [u \in Urls |-> {}]
  /\ originCalls = [u \in Urls |-> 0]
  /\ lastWriter = [u \in Urls |-> 0]
  /\ pc = [p \in Procs |-> "idle"]
  /\ tool = [p \in Procs |-> "none"]
  /\ url = [p \in Procs |-> "none"]
  /\ response = [p \in Procs |-> NoResponse]
  /\ log = [p \in Procs |-> <<>>]
  /\ ret = [p \in Procs |-> NoReturn]
  /\ out = [p \in Procs |-> NoOut]
  /\ prior = [p \in Procs |-> {}]

\* The MCP runtime calls a documentation tool: the handler runs up to
\* `await cache.match(cacheKey)`. Invocations are numbered in the order
\* they begin.
Invoke(p, t) ==
  /\ pc[p] = "idle"
  /\ \A q \in Procs : q < p => pc[q] # "idle"
  /\ tool' = [tool EXCEPT ![p] = t]
  /\ url' = [url EXCEPT ![p] = ToolUrl(t)]
  /\ log' = [log EXCEPT ![p] = <<"match">>]
  /\ prior' = [prior EXCEPT ![p] = {q \in Procs : pc[q] = "done"}]
  /\ pc' = [pc EXCEPT ![p] = "match"]
  /\ UNCHANGED <<cache, origin, stable, served, originCalls, lastWriter,
                 response, ret, out, searchVars, pageVars,
                 sectionVars, mcpVars>>

\* cache.match resolves: a hit goes on to response.text(), a miss issues
\* fetch(url).
MatchDone(p) ==
  /\ pc[p] = "match"
  /\ LET m == CacheMatch(cache, url[p]) IN
       IF NeedsFetch(m)
         THEN /\ log' = [log EXCEPT ![p] =
                           @ \o <<(IF m = NoResponse THEN "miss" ELSE "hit"), "fetch">>]
              /\ originCalls' = [originCalls EXCEPT ![url[p]] = @ + 1]
              /\ pc' = [pc EXCEPT ![p] = "fetch"]
              /\ UNCHANGED response
         ELSE /\ log' = [log EXCEPT ![p] = @ \o <<"hit">>]
              /\ response' = [response EXCEPT ![p] = m]
              /\ pc' = [pc EXCEPT ![p] = "text"]
              /\ UNCHANGED originCalls
  /\ UNCHANGED <<cache, origin, stable, served, lastWriter, tool, url, ret, out, prior,
                 searchVars, pageVars,
                 sectionVars, mcpVars>>

\* The awaited call rejects (cache lookup or network error): fetchHonoDocs
\* throws into the tool handler.
Throw(p, at, ev) ==
  /\ pc[p] = at
  /\ log' = [log EXCEPT ![p] = @ \o <<ev>>]
  /\ ret' = [ret EXCEPT ![p] = Thrown]
  /\ out' = [out EXCEPT ![p] = ToolResult(tool[p], Thrown)]
  /\ pc' = [pc EXCEPT ![p] = "done"]
  /\ UNCHANGED <<cache, origin, stable, served, originCalls, lastWriter,
                 tool, url, response, prior, searchVars, pageVars,
                 sectionVars, mcpVars>>

MatchFail(p) == Throw(p, "match", "matchError")

FetchFail(p) == Throw(p, "fetch", "fetchError")

\* fetch(url) resolves with the origin's current answer; a successful one
\* is cloned, re-headed and handed to `await cache.put`.
FetchDone(p) ==
  /\ pc[p] = "fetch"
  /\ LET r == origin[url[p]] IN
       /\ response' = [response EXCEPT ![p] = r]
       /\ served' = [served EXCEPT ![url[p]] = @ \cup {r}]
       /\ IF ShouldStore(r)
            THEN /\ log' = [log EXCEPT ![p] =
                              @ \o <<(IF IsOk(r) THEN "ok" ELSE "fail"), "put">>]
                 /\ pc' = [pc EXCEPT ![p] = "put"]
            ELSE /\ log' = [log EXCEPT ![p] = @ \o <<"fail">>]
                 /\ pc' = [pc EXCEPT ![p] = "text"]
  /\ UNCHANGED <<cache, origin, stable, originCalls, lastWriter, tool, url,
                 ret, out, prior, searchVars, pageVars,
                 sectionVars, mcpVars>>

\* cache.put resolves: the entry is stored under the URL.
PutDone(p) ==
  /\ pc[p] = "put"
  /\ cache' = CachePut(cache, url[p], CachedResponse(response[p], cacheTtl))
  /\ lastWriter' = [lastWriter EXCEPT ![url[p]] = p]
  /\ log' = [log EXCEPT ![p] = @ \o <<"stored">>]
  /\ pc' = [pc EXCEPT ![p] = "text"]
  /\ UNCHANGED <<origin, stable, served, originCalls, tool, url, response,
                 ret, out, prior, searchVars, pageVars,
                 sectionVars, mcpVars>>

\* response.text() resolves: fetchHonoDocs returns and the handler builds
\* its result.
TextDone(p) ==
  /\ pc[p] = "text"
  /\ ret' = [ret EXCEPT ![p] = Returned(Text(response[p]))]
  /\ out' = [out EXCEPT ![p] = ToolResult(tool[p], Returned(Text(response[p])))]
  /\ pc' = [pc EXCEPT ![p] = "done"]
  /\ UNCHANGED <<cache, origin, stable, served, originCalls, lastWriter,
                 tool, url, response, log, prior, searchVars, pageVars,
                 sectionVars, mcpVars>>

\* The upstream document changes or starts/stops failing. Only a fetch in
\* flight observes the origin, so a change is taken while one is.
OriginChange(u, r) ==
  /\ origin[u] # r
  /\ \E p \in Procs : pc[p] = "fetch" /\ url[p] = u
  /\ origin' = [origin EXCEPT ![u] = r]
  /\ stable' = [stable EXCEPT ![u] = FALSE]
  /\ UNCHANGED <<cache, served, originCalls, lastWriter, pc, tool, url,
                 response, log, ret, out, prior, searchVars, pageVars,
                 sectionVars, mcpVars>>

Next ==
  \/ \E p \in Procs, t \in Tools : Invoke(p, t)
  \/ \E p \in Procs : MatchDone(p)
  \/ \E p \in Procs : MatchFail(p)
  \/ \E p \in Procs : FetchDone(p)
  \/ \E p \in Procs : FetchFail(p)
  \/ \E p \in Procs : PutDone(p)
  \/ \E p \in Procs : TextDone(p)
  \/ \E u \in Urls, r \in OriginResponses : OriginChange(u, r)

\* ========================================================= search-hono-docs
Min(a, b) == IF a <= b THEN a ELSE b
Max(a, b) == IF a >= b THEN a ELSE b

\* Strings are sequences of one-character strings; "\n" is the line break.
NL == "\n"
\* Lines of an index text: with and without the query "app", in either
\* letter case, with and without a parenthesised /docs path.
IndexLines ==
  { <<"-", " ", "[", "A", "p", "p", "]", "(", "/", "d", "o", "c", "s", "/", "a", ")">>,      \* - [App](/docs/a)
    <<"a", "p", "p", " ", "(", "/", "d", "o", "c", "s", ")">>,    \* app (/docs)
    <<"A", "P", "P", " ", "(", "/", "d", "o", "c", "s", "/", "b", ")">>,    \* APP (/docs/b)
    <<"[", "C", "t", "x", "]", "(", "/", "d", "o", "c", "s", "/", "c", ")">>,      \* [Ctx](/docs/c)
    <<" ", " ", "a", "p", "p", " ", " ">>,    \*   app  (blanks around)
    <<>> }
Queries == { <<"a", "p", "p">>, <<"A", "P", "P">>, <<"z", "z", "z">>, <<>> }
Limits == (0 - 1)..MaxLimit

RECURSIVE JoinLines(_)
\* lines.join("\n"): the text whose lines are ls
JoinLines(ls) ==
  IF Len(ls) = 1 THEN ls[1] ELSE ls[1] \o <<NL>> \o JoinLines(Tail(ls))

IndexTexts ==
  { JoinLines(ls) : ls \in UNION { [1..n -> IndexLines] : n \in 1..MaxLines } }

\* Index lines and queries that differ in letter case only, some of them
\* with the letter I, whose lower case is i in most languages and the
\* dotless i in Turkish and Azeri.
CaseLines ==
  { <<"I", "S", "I", " ", "(", "/", "d", "o", "c", "s", "/", "i", ")">>,      \* ISI (/docs/i)
    <<"i", "s", "i", " ", "(", "/", "d", "o", "c", "s", "/", "j", ")">>,      \* isi (/docs/j)
    <<"dotless-i", "s", "dotless-i", " ", "(", "/", "d", "o", "c", "s", "/", "k", ")">>,      \* the same word with dotless i
    <<"A", "p", " ", "(", "/", "d", "o", "c", "s", "/", "a", ")">> }     \* Ap (/docs/a)
CaseQueries ==
  { <<"I", "S", "I">>, <<"i", "s", "i">>, <<"dotless-i", "s", "dotless-i">>, <<"a", "P">>, <<"A", "P">> }
CaseTexts ==
  { JoinLines(ls) : ls \in UNION { [1..n -> CaseLines] : n \in 1..MaxLines } }

RECURSIVE SplitFrom(_, _, _)
\* text.split("\n"), scanning from position i with the current line cur
SplitFrom(t, i, cur) ==
  IF i > Len(t) THEN <<cur>>
  ELSE IF t[i] = NL THEN <<cur>> \o SplitFrom(t, i + 1, <<>>)
  ELSE SplitFrom(t, i + 1, Append(cur, t[i]))
Split(t) == SplitFrom(t, 1, <<>>)

\* String.prototype.toLowerCase on the letters the texts use
\* "dotless-i" stands for the letter U+0131, whose upper case is I and which
\* toLowerCase leaves as it is.
LowerOf == [A |-> "a", P |-> "p", C |-> "c", D |-> "d", G |-> "g", N |-> "n",
            T |-> "t", B |-> "b", I |-> "i", S |-> "s"]
ToLowerChar(c) == IF c \in DOMAIN LowerOf THEN LowerOf[c] ELSE c
ToLowerCase(str) == [i \in 1..Len(str) |-> ToLowerChar(str[i])]

\* String.prototype.includes
Includes(str, sub) ==
  \E i \in 1..(Len(str) - Len(sub) + 1) : SubSeq(str, i, i + Len(sub) - 1) = sub

\* String.prototype.trim
IsSpace(c) == c \in {" ", "\t"}
RECURSIVE TrimStart(_)
TrimStart(str) ==
  IF str # <<>> /\ IsSpace(Head(str)) THEN TrimStart(Tail(str)) ELSE str
RECURSIVE TrimEnd(_)
TrimEnd(str) ==
  IF str # <<>> /\ IsSpace(str[Len(str)])
    THEN TrimEnd(SubSeq(str, 1, Len(str) - 1)) ELSE str
Trim(str) == TrimEnd(TrimStart(str))

\* line.match(/\((\/docs[^)]+)\)/): the capture of the leftmost match, or
\* NoMatch. At a "(/docs" the class [^)]+ takes everything up to the next
\* ")", which must be at least one character.
DocsPrefix == <<"/", "d", "o", "c", "s">>
NoMatch == <<>>
MatchAt(line, i, least) ==
  IF line[i] = "(" /\ i + 5 <= Len(line) /\ SubSeq(line, i + 1, i + 5) = DocsPrefix
    THEN LET closes == {j \in (i + 6)..Len(line) : line[j] = ")"} IN
         IF closes = {} THEN NoMatch
         ELSE LET j == CHOOSE k \in closes : \A m \in closes : k <= m IN
              IF j >= i + 6 + least THEN SubSeq(line, i + 1, j - 1) ELSE NoMatch
    ELSE NoMatch
MatchPathFrom(line, least) ==
  LET starts == {i \in 1..Len(line) : MatchAt(line, i, least) # NoMatch} IN
  IF starts = {} THEN NoMatch
  ELSE MatchAt(line, CHOOSE i \in starts : \A k \in starts : i <= k, least)
MatchPathStar(line) == MatchPathFrom(line, 0)
MatchPath(line) == MatchPathFrom(line, 1)

\* if (results.length >= limit) break;
LimitReachedLate(n, lim) == n > lim
LimitReached(n, lim) == n >= lim

\* results.push({ title: line.trim(), path, url: `https://hono.dev${path}` })
SearchResult(line, path) ==
  [title |-> Trim(line), path |-> path, url |-> <<"https://hono.dev">> \o path]

\* The body of the for loop after the break test.
Examine(line, lowerQuery, res) ==
  IF Includes(ToLowerCase(line), lowerQuery) /\ MatchPath(line) # NoMatch
    THEN Append(res, SearchResult(line, MatchPath(line)))
    ELSE res

\* The text returned: the "no results" sentence, or the numbered list
\* `${idx + 1}. ${r.title} - ${r.url}` joined by line breaks.
RenderSearchListOnly(q, res) ==
  [kind |-> "list", query |-> <<>>,
   items |-> [k \in 1..Len(res) |-> <<k, res[k].title, res[k].url>>]]
RenderSearch(q, res) ==
  IF Len(res) = 0
    THEN [kind |-> "no-results", query |-> q, items |-> <<>>]
    ELSE [kind |-> "list", query |-> <<>>,
          items |-> [k \in 1..Len(res) |-> <<k, res[k].title, res[k].url>>]]

NoSearchOut == [kind |-> "none", query |-> <<>>, items |-> <<>>]

SearchInit ==
  /\ text \in IndexTexts
  /\ query \in Queries
  /\ limit \in Limits
  /\ lines = <<>> /\ idx = 0 /\ results = <<>> /\ hits = <<>>
  /\ examined = {} /\ sout = NoSearchOut /\ spc = "call"

CaseInit ==
  /\ text \in CaseTexts
  /\ query \in CaseQueries
  /\ limit \in Limits
  /\ lines = <<>> /\ idx = 0 /\ results = <<>> /\ hits = <<>>
  /\ examined = {} /\ sout = NoSearchOut /\ spc = "call"

\* async ({ query, limit = 5 }): the text arrives and is split into lines.
SearchCall ==
  /\ spc = "call"
  /\ lines' = Split(text)
  /\ spc' = "loop"
  /\ UNCHANGED <<text, query, limit, idx, results, hits, examined, sout,
                 fetchVars, pageVars,
                 sectionVars, mcpVars>>

\* One iteration that passes the break test: the line is examined.
SearchStep ==
  /\ spc = "loop" /\ idx < Len(lines)
  /\ ~LimitReached(Len(results), limit)
  /\ LET new == Examine(lines[idx + 1], ToLowerCase(query), results) IN
       /\ results' = new
       /\ hits' = IF new # results THEN Append(hits, idx + 1) ELSE hits
  /\ examined' = examined \cup {idx + 1}
  /\ idx' = idx + 1
  /\ UNCHANGED <<text, query, limit, lines, sout, spc, fetchVars, pageVars,
                 sectionVars, mcpVars>>

\* The break: the next line is taken from the iterator but not examined.
SearchBreak ==
  /\ spc = "loop" /\ idx < Len(lines)
  /\ LimitReached(Len(results), limit)
  /\ spc' = "render"
  /\ UNCHANGED <<text, query, limit, lines, idx, results, hits, examined, sout,
                 fetchVars, pageVars,
                 sectionVars, mcpVars>>

\* The lines are exhausted.
SearchEnd ==
  /\ spc = "loop" /\ idx = Len(lines)
  /\ spc' = "render"
  /\ UNCHANGED <<text, query, limit, lines, idx, results, hits, examined, sout,
                 fetchVars, pageVars,
                 sectionVars, mcpVars>>

\* The handler returns its text.
SearchReturn ==
  /\ spc = "render"
  /\ sout' = RenderSearch(query, results)
  /\ spc' = "done"
  /\ UNCHANGED <<text, query, limit, lines, idx, results, hits, examined,
                 fetchVars, pageVars,
                 sectionVars, mcpVars>>

SearchNext ==
  \/ SearchCall
  \/ SearchStep
  \/ SearchBreak
  \/ SearchEnd
  \/ SearchReturn

\* ============================================== get-hono-page (paginated)
\* A page's markdown is a string of UTF-16 code units: "a" and "b" are
\* characters of one unit, "H" "L" is a surrogate pair (one character of
\* two units). response.text() yields well-formed strings only.
Units == {"a", "b", "H", "L"}
WellFormed(str) ==
  \A i \in 1..Len(str) :
    /\ str[i] = "H" => (i < Len(str) /\ str[i + 1] = "L")
    /\ str[i] = "L" => (i > 1 /\ str[i - 1] = "H")
PageTexts ==
  {t \in UNION { [1..n -> Units] : n \in 0..MaxTextLen } : WellFormed(t)}

\* String.prototype.slice(start, end) for 0 <= start <= end
Slice(str, start, end) == SubSeq(str, Min(start, Len(str)) + 1, Min(end, Len(str)))

\* nextOffset = offset + maxChars < totalChars ? offset + maxChars : null
\* (null is the empty set, a number n is {n})
NextOffsetInclusive(off, maxc, total) ==
  IF off + maxc <= total THEN {off + maxc} ELSE {}
NextOffset(off, maxc, total) ==
  IF off + maxc < total THEN {off + maxc} ELSE {}

\* The continuation notice appended when nextOffset is not null:
\* "--- Page truncated at ${offset + maxChars}/${totalChars} chars.
\*  Use offset=${nextOffset} to continue. ---"
NoNotice == [truncatedAt |-> {}, total |-> {}, useOffset |-> {}]
NoticeStale(off, maxc, total, nxt) ==
  IF nxt # {}
    THEN [truncatedAt |-> {off + maxc}, total |-> {total}, useOffset |-> {off}]
    ELSE NoNotice
Notice(off, maxc, total, nxt) ==
  IF nxt # {}
    THEN [truncatedAt |-> {off + maxc}, total |-> {total}, useOffset |-> nxt]
    ELSE NoNotice

\* The notice as the pieces of its template literal, numbers printed in
\* decimal; nothing for a terminal page.
NumberOf(S) == ToString(CHOOSE n \in S : TRUE)
NoticeText(n) ==
  IF n = NoNotice THEN <<>>
  ELSE << "\n\n--- Page truncated at ", NumberOf(n.truncatedAt), "/",
          NumberOf(n.total), " chars. Use offset=", NumberOf(n.useOffset),
          " to continue. ---" >>

\* The handler's try block, given the markdown fetchHonoDocs returned:
\* text is the slice, then the notice.
GetHonoPage(doc, off, maxc) ==
  LET totalChars == Len(doc)
      slice == Slice(doc, off, off + maxc)
      nxt == NextOffset(off, maxc, totalChars)
      notice == Notice(off, maxc, totalChars, nxt)
  IN [slice |-> slice, nextOffset |-> nxt, notice |-> notice,
      text |-> slice \o NoticeText(notice)]

NoPage == [slice |-> <<>>, nextOffset |-> {}, notice |-> NoNotice, text |-> <<>>]

PageInit ==
  /\ md \in PageTexts
  /\ maxChars \in 1..MaxPageChars
  /\ offset = 0 /\ acc = <<>> /\ pages = 0
  /\ page = NoPage /\ ppc = "request"

\* The client calls get-hono-page with the current offset and keeps the
\* slice it gets.
PageRequest ==
  /\ ppc = "request"
  /\ LET res == GetHonoPage(md, offset, maxChars) IN
       /\ page' = res
       /\ acc' = acc \o res.slice
       /\ ppc' = IF res.nextOffset = {} THEN "done" ELSE "follow"
  /\ pages' = pages + 1
  /\ UNCHANGED <<md, maxChars, offset, fetchVars, searchVars,
                 sectionVars, mcpVars>>

\* The client follows the notice: the next call uses nextOffset.
FollowNext ==
  /\ ppc = "follow"
  /\ offset' = CHOOSE n \in page.nextOffset : TRUE
  /\ ppc' = "request"
  /\ UNCHANGED <<md, maxChars, acc, pages, page, fetchVars, searchVars,
                 sectionVars, mcpVars>>

PageNext ==
  \/ PageRequest
  \/ FollowNext

\* ============================================================ list-sections
\* Lines of a page's markdown: headings of several levels, hash runs that
\* are too short or too long, a run with no blank after it, a run followed
\* by blanks only, and an indented run.
DocLines ==
  { <<"#", "#", " ", "G", "o", " ", " ", "N", "o", "w", "!">>,      \* ## Go  Now!
    <<"#", " ", "T", "o", "p">>,      \* # Top
    <<"#", "#", "#", "#", "#", "#", "#", " ", "x">>,      \* ####### x
    <<"#", "#", "#", "#", "#", "#", " ", "a", "-", "b", " ", "2">>,      \* ###### a-b 2
    <<"#", "#", "#", "x">>,      \* ###x
    <<"#", "#", " ", " ">>,      \* ## followed by two blanks
    <<" ", "#", "#", " ", "x">>,      \* (blank)## x
    <<"#", "#", "#", " ", "A", " ", "-", " ", "B">>,      \* ### A - B
    <<"#", "#", "\t", "!", "x", " ", "!">> }     \* ##(tab)!x !
Docs ==
  { JoinLines(ls) : ls \in UNION { [1..n -> DocLines] : n \in 1..MaxDocLines } }

\* line.match(/^(#{2,6})\s+(.+)/): the hash run takes k of HashCounts
\* characters, \s+ takes w >= 1 blanks and (.+) the rest, which must not
\* be empty; each takes as much as a match allows. NoHeading is null.
HashCountsFromOne == 1..6
HashCounts == 2..6
NoHeading == [hashes |-> <<>>, rest |-> <<>>]
HeadingSplits(line) ==
  { kw \in HashCounts \X (1..Len(line)) :
      /\ kw[1] + kw[2] < Len(line)
      /\ \A i \in 1..kw[1] : line[i] = "#"
      /\ \A i \in (kw[1] + 1)..(kw[1] + kw[2]) : IsSpace(line[i]) }
HeadingMatch(line) ==
  LET splits == HeadingSplits(line) IN
  IF splits = {} THEN NoHeading
  ELSE LET k == CHOOSE a \in {kw[1] : kw \in splits} :
                  \A b \in {kw[1] : kw \in splits} : a >= b
           ws == {kw[2] : kw \in {x \in splits : x[1] = k}}
           w == CHOOSE a \in ws : \A b \in ws : a >= b
       IN [hashes |-> SubSeq(line, 1, k),
           rest |-> SubSeq(line, k + w + 1, Len(line))]

\* .replace(/[^a-z0-9\s-]/g, "")
SlugLetters ==
  {"a", "b", "c", "d", "e", "f", "g", "h", "i", "j", "k", "l", "m", "n", "o",
   "p", "q", "r", "s", "t", "u", "v", "w", "x", "y", "z"}
SlugDigits == {"0", "1", "2", "3", "4", "5", "6", "7", "8", "9"}
KeptInSlug(c) == c \in SlugLetters \cup SlugDigits \cup {"-"} \/ IsSpace(c)
StripForSlug(str) == SelectSeq(str, KeptInSlug)

RECURSIVE HyphenateEach(_)
HyphenateEach(str) ==
  IF str = <<>> THEN <<>>
  ELSE <<(IF IsSpace(Head(str)) THEN "-" ELSE Head(str))>> \o HyphenateEach(Tail(str))
RECURSIVE HyphenateRuns(_)
\* .replace(/\s+/g, "-"): every maximal run of blanks becomes one hyphen
HyphenateRuns(str) ==
  IF str = <<>> THEN <<>>
  ELSE IF IsSpace(Head(str))
    THEN <<"-">> \o HyphenateRuns(TrimStart(str))
    ELSE <<Head(str)>> \o HyphenateRuns(Tail(str))

\* title.toLowerCase().replace(/[^a-z0-9\s-]/g, "").trim().replace(/\s+/g, "-")
Slug(title) == HyphenateRuns(Trim(StripForSlug(ToLowerCase(title))))

\* sections.push({ level, title, anchor: `#${slug}` })
Section(m) ==
  LET title == Trim(m.rest) IN
  [level |-> Len(m.hashes), title |-> title, anchor |-> <<"#">> \o Slug(title)]

\* "  ".repeat(n)
RECURSIVE Indent(_)
Indent(n) == IF n <= 0 THEN <<>> ELSE <<" ", " ">> \o Indent(n - 1)

\* `${indent}- ${sec.title} (${sec.anchor})`
OutlineLine(sec) ==
  Indent(sec.level - 2) \o <<"-", " ">> \o sec.title \o <<" ", "(">>
    \o sec.anchor \o <<")">>

\* The text returned: the "No sections found" sentence, or the outline
\* lines joined by line breaks.
RenderSections(secs) ==
  IF Len(secs) = 0
    THEN [kind |-> "no-sections", items |-> <<>>]
    ELSE [kind |-> "outline", items |-> [k \in 1..Len(secs) |-> OutlineLine(secs[k])]]

NoSectionsOut == [kind |-> "none", items |-> <<>>]

SectionsInit ==
  /\ smd \in Docs
  /\ dlines = <<>> /\ didx = 0 /\ sections = <<>> /\ secFrom = <<>>
  /\ lout = NoSectionsOut /\ lpc = "call"

\* async ({ path }): the markdown arrives and is split into lines.
SectionsCall ==
  /\ lpc = "call"
  /\ dlines' = Split(smd)
  /\ lpc' = "loop"
  /\ UNCHANGED <<smd, didx, sections, secFrom, lout, fetchVars, searchVars,
                 pageVars, mcpVars>>

\* One iteration of for (const line of lines).
SectionsStep ==
  /\ lpc = "loop" /\ didx < Len(dlines)
  /\ LET m == HeadingMatch(dlines[didx + 1]) IN
       IF m # NoHeading
         THEN /\ sections' = Append(sections, Section(m))
              /\ secFrom' = Append(secFrom, didx + 1)
         ELSE UNCHANGED <<sections, secFrom>>
  /\ didx' = didx + 1
  /\ UNCHANGED <<smd, dlines, lout, lpc, fetchVars, searchVars, pageVars, mcpVars>>

\* The lines are exhausted: the handler returns its text.
SectionsReturn ==
  /\ lpc = "loop" /\ didx = Len(dlines)
  /\ lout' = RenderSections(sections)
  /\ lpc' = "done"
  /\ UNCHANGED <<smd, dlines, didx, sections, secFrom, fetchVars, searchVars,
                 pageVars, mcpVars>>

SectionsNext ==
  \/ SectionsCall
  \/ SectionsStep
  \/ SectionsReturn

\* ============================================================ the /mcp route
\* The two variants that keep the McpServer in a module-level constant: one
\* also keeps a single transport and a flag, the other makes a transport
\* for every request.
Variants == {"singleton-transport", "transport-per-request"}
Reqs == 1..NumReqs

\* server.tool(name, ...) and server.prompt(name, ...) at module
\* initialisation.
Registered(v) ==
  IF v = "singleton-transport"
    THEN [tools |-> {"add", "multiply", "get-time", "search-hono-docs",
                     "get-hono-page", "list-sections"},
          prompts |-> {"greeting-template"}]
    ELSE [tools |-> {"add", "multiply", "get-time"},
          prompts |-> {"greeting-template"}]

\* What a request asks of the server.
NoMethod == [method |-> "none", name |-> "none"]
Methods ==
  {[method |-> "tools/list", name |-> "none"],
   [method |-> "tools/call", name |-> "add"],
   [method |-> "tools/call", name |-> "list-sections"],
   [method |-> "prompts/get", name |-> "greeting-template"]}

\* transport.handleRequest(c): the request is answered from the registry.
\* No tool or prompt callback calls server.tool or server.prompt, so the
\* registry handed back is the one handed in.
DispatchRegistering(reg, m) ==
  [registry |-> [reg EXCEPT !.tools = @ \cup {m.name}],
   answer |-> "result"]
Dispatch(reg, m) ==
  [registry |-> reg,
   answer |-> IF m.method = "tools/list" THEN "list"
              ELSE IF m.method = "tools/call" /\ m.name \in reg.tools THEN "result"
              ELSE IF m.method = "prompts/get" /\ m.name \in reg.prompts THEN "result"
              ELSE "error"]

McpInit ==
  /\ variant \in Variants
  /\ registry = Registered(variant)
  /\ isConnected = FALSE
  /\ connectCalls = 0 /\ connectsDone = 0
  /\ rq = [r \in Reqs |-> "idle"]
  /\ req = [r \in Reqs |-> NoMethod]

\* app.post("/mcp") or app.all("/mcp") begins: up to the first await, or
\* straight to transport.handleRequest when the flag is already set.
PostMcp(r, m) ==
  /\ rq[r] = "idle"
  /\ \A q \in Reqs : q < r => rq[q] # "idle"
  /\ req' = [req EXCEPT ![r] = m]
  /\ IF variant = "singleton-transport" /\ isConnected
       THEN /\ rq' = [rq EXCEPT ![r] = "handle"]
            /\ UNCHANGED connectCalls
       ELSE /\ rq' = [rq EXCEPT ![r] = "connect"]
            /\ connectCalls' = connectCalls + 1
  /\ UNCHANGED <<variant, registry, isConnected, connectsDone, fetchVars,
                 searchVars, pageVars, sectionVars>>

\* await mcpServer.connect(transport) resolves.
ConnectDone(r) ==
  /\ rq[r] = "connect"
  /\ connectsDone' = connectsDone + 1
  /\ isConnected' = (isConnected \/ variant = "singleton-transport")
  /\ rq' = [rq EXCEPT ![r] = "handle"]
  /\ UNCHANGED <<variant, registry, connectCalls, req, fetchVars, searchVars,
                 pageVars, sectionVars>>

\* await mcpServer.connect(transport) rejects: the route handler throws.
ConnectFail(r) ==
  /\ rq[r] = "connect"
  /\ rq' = [rq EXCEPT ![r] = "failed"]
  /\ UNCHANGED <<variant, registry, isConnected, connectCalls, connectsDone,
                 req, fetchVars, searchVars, pageVars, sectionVars>>

\* return transport.handleRequest(c) completes.
HandleRequest(r) ==
  /\ rq[r] = "handle"
  /\ registry' = Dispatch(registry, req[r]).registry
  /\ rq' = [rq EXCEPT ![r] = Dispatch(registry, req[r]).answer]
  /\ UNCHANGED <<variant, isConnected, connectCalls, connectsDone, req,
                 fetchVars, searchVars, pageVars, sectionVars>>

McpNext ==
  \/ \E r \in Reqs, m \in Methods : PostMcp(r, m)
  \/ \E r \in Reqs : ConnectDone(r)
  \/ \E r \in Reqs : ConnectFail(r)
  \/ \E r \in Reqs : HandleRequest(r)

\* ============================================================ composition
\* Each specification runs one component and leaves the others at rest.
FetchIdle ==
  /\ FetchInit
  /\ origin = [u \in Urls |-> [body |-> "b1", status |-> 200, cc |-> <<"no-store">>]]

SearchIdle ==
  /\ text = <<>> /\ lines = <<>> /\ query = <<>> /\ limit = 0 /\ idx = 0
  /\ results = <<>> /\ hits = <<>> /\ examined = {} /\ sout = NoSearchOut
  /\ spc = "off"

PageIdle ==
  /\ md = <<>> /\ maxChars = 0 /\ offset = 0 /\ acc = <<>>
  /\ pages = 0 /\ page = NoPage /\ ppc = "off"

SectionsIdle ==
  /\ smd = <<>> /\ dlines = <<>> /\ didx = 0 /\ sections = <<>>
  /\ secFrom = <<>> /\ lout = NoSectionsOut /\ lpc = "off"

McpIdle ==
  /\ variant = "none" /\ registry = [tools |-> {}, prompts |-> {}]
  /\ isConnected = FALSE /\ connectCalls = 0 /\ connectsDone = 0
  /\ rq = [r \in Reqs |-> "off"] /\ req = [r \in Reqs |-> NoMethod]

Init == FetchInit /\ SearchIdle /\ PageIdle /\ SectionsIdle /\ McpIdle

Spec == Init /\ [][Next]_vars

InitSearch == FetchIdle /\ SearchInit /\ PageIdle /\ SectionsIdle /\ McpIdle

SpecSearch == InitSearch /\ [][SearchNext]_vars

InitPage == FetchIdle /\ SearchIdle /\ PageInit /\ SectionsIdle /\ McpIdle

SpecPage == InitPage /\ [][PageNext]_vars

InitCase == FetchIdle /\ CaseInit /\ PageIdle /\ SectionsIdle /\ McpIdle

SpecCase == InitCase /\ [][SearchNext]_vars

InitSections == FetchIdle /\ SearchIdle /\ PageIdle /\ SectionsInit /\ McpIdle

SpecSections == InitSections /\ [][SectionsNext]_vars

\* One invocation of either tool that can report an empty result.
InitTools == InitSearch \/ InitSections

ToolsNext == SearchNext \/ SectionsNext

SpecTools == InitTools /\ [][ToolsNext]_vars

InitMcp == FetchIdle /\ SearchIdle /\ PageIdle /\ SectionsIdle /\ McpInit

SpecMcp == InitMcp /\ [][McpNext]_vars

\* ================================================================ claims
Has(s, e) == \E i \in DOMAIN s : s[i] = e
Count(s, e) == Cardinality({i \in DOMAIN s : s[i] = e})
\* A response with a success status (2xx).
Successful(r) == r.status \in 200..299
\* No invocation other than p has stored an entry for p's URL.
NoOtherStore(p) ==
  \A r \in Procs : (r # p /\ url[r] = url[p]) => ~Has(log[r], "stored")
\* Only the invocations in S have been made for URL u.
OnlyCallers(u, S) == \A r \in Procs : url[r] = u => r \in S

\* C1: cache idempotence. When the origin's answer for a URL is stable and
\* successful and a call q begins after a call p for the same URL has
\* returned, q returns the text p returned and q issues no origin fetch;
\* when p and q are the only calls for the URL (p began on the empty
\* cache), the origin has been contacted exactly once.
C1_CacheIdempotence ==
  \A p, q \in Procs :
    ( /\ p \in prior[q] /\ url[p] = url[q] /\ pc[q] = "done"
      /\ ret[p].kind = "text" /\ ret[q].kind = "text"
      /\ stable[url[q]] /\ Successful(origin[url[q]]) )
    => /\ ret[q].body = ret[p].body
       /\ ~Has(log[q], "fetch")
       /\ OnlyCallers(url[q], {p, q}) => originCalls[url[q]] = 1

C1_Witness ==
  \E p, q \in Procs :
    /\ p \in prior[q] /\ url[p] = url[q] /\ pc[q] = "done"
    /\ ret[p].kind = "text" /\ ret[q].kind = "text"
    /\ stable[url[q]] /\ Successful(origin[url[q]])
    /\ Has(log[p], "stored") /\ Has(log[q], "hit")
    /\ originCalls[url[q]] = 1

\* C2: no caching on failure. An invocation that missed and got a
\* non-success response issues no cache write and returns that response's
\* text; unless another invocation stored an entry, the cache holds no
\* entry for the URL afterwards, and a later call for the URL that gets
\* past its lookup has contacted the origin again.
C2_NoCachingOnFailure ==
  \A p \in Procs :
    ( /\ Has(log[p], "miss") /\ response[p] # NoResponse
      /\ ~Successful(response[p]) )
    => /\ ~Has(log[p], "put")
       /\ pc[p] = "done" => ret[p] = Returned(response[p].body)
       /\ NoOtherStore(p) => cache[url[p]] = NoResponse
       /\ \A q \in Procs :
            ( /\ p \in prior[q] /\ url[q] = url[p] /\ NoOtherStore(p)
              /\ pc[q] \notin {"idle", "match"} /\ ~Has(log[q], "matchError") )
            => Has(log[q], "fetch")

C2_Witness ==
  \E p, q \in Procs :
    /\ Has(log[p], "miss") /\ response[p] # NoResponse
    /\ ~Successful(response[p]) /\ ret[p] = Returned("e1")
    /\ p \in prior[q] /\ url[q] = url[p] /\ NoOtherStore(p)
    /\ cache[url[p]] = NoResponse
    /\ pc[q] = "done" /\ Has(log[q], "fetch") /\ originCalls[url[p]] = 2

\* C3: failures become data at the tool boundary. Every documentation tool
\* invocation whose cache lookup or upstream fetch failed ends with a
\* success-shaped result carrying an error message, never with a thrown
\* fault.
C3_FailuresBecomeData ==
  \A p \in Procs :
    (pc[p] = "done" /\ (Has(log[p], "matchError") \/ Has(log[p], "fetchError")))
    => out[p].shape = "content" /\ out[p].kind = "error-message"

\* C4: ordering within one invocation. The lookup is issued first; an
\* origin fetch is issued only after the lookup completed with a miss; a
\* cache write is issued only after the fetch completed with a successful
\* response, and completes only after it was issued.
C4_Ordering ==
  \A p \in Procs : \A i \in DOMAIN log[p] :
    LET l == log[p]
        Before(e) == \E j \in 1..(i - 1) : l[j] = e
    IN /\ l[1] = "match"
       /\ l[i] \in {"hit", "miss", "matchError"} => Before("match")
       /\ l[i] = "fetch" => Before("miss") /\ ~Before("hit")
       /\ l[i] \in {"ok", "fail", "fetchError"} => Before("fetch")
       /\ l[i] = "put" => /\ Before("ok") /\ Before("fetch")
                          /\ Successful(response[p])
       /\ l[i] = "stored" => Before("put")

C4_Witness ==
  \E p \in Procs : log[p] = <<"match", "miss", "fetch", "ok", "put", "stored">>

\* C5: operation counts per invocation. A finished invocation that hit
\* issued no origin fetch and no cache write; one that missed issued exactly
\* one fetch and at most one write: exactly one when the response was
\* successful, none when it was a failure or the fetch threw.
C5_WriteCount ==
  \A p \in Procs :
    pc[p] = "done" =>
      /\ Has(log[p], "hit") => Count(log[p], "fetch") = 0 /\ Count(log[p], "put") = 0
      /\ Has(log[p], "miss") =>
           /\ Count(log[p], "fetch") = 1
           /\ Count(log[p], "put") <= 1
           /\ Count(log[p], "stored") = Count(log[p], "put")
           /\ Count(log[p], "put") = 1
                <=> (response[p] # NoResponse /\ Successful(response[p]))

C5_Witness ==
  \E p, q \in Procs :
    /\ pc[p] = "done" /\ Has(log[p], "hit") /\ Count(log[p], "fetch") = 0
    /\ pc[q] = "done" /\ Has(log[q], "miss") /\ Count(log[q], "fetch") = 1
    /\ Count(log[q], "put") = 1 /\ url[p] = url[q]

\* C6: cache provenance. Every cache entry has the body and status of a
\* successful response the origin gave for that same URL, and the text a
\* cache hit returns is the body of such a response.
C6_CacheProvenance ==
  /\ \A u \in Urls :
       cache[u] # NoResponse =>
         \E r \in served[u] :
           Successful(r) /\ cache[u].body = r.body /\ cache[u].status = r.status
  /\ \A p \in Procs :
       (Has(log[p], "hit") /\ ret[p].kind = "text") =>
         \E r \in served[url[p]] : Successful(r) /\ ret[p].body = r.body

C6_Witness ==
  \E p \in Procs :
    /\ Has(log[p], "hit") /\ ret[p].kind = "text"
    /\ cache[url[p]].body = ret[p].body
    /\ \E r \in served[url[p]] : Successful(r) /\ r.body = ret[p].body

\* C7: concurrent misses. Overlapping invocations may both miss, fetch and
\* store; the cache entry is always the one of the write that completed
\* last, and while the origin's answer is stable all callers return the
\* same text and the entry has the origin's body, as after a single run.
C7_ConcurrentMisses ==
  \A u \in Urls :
    /\ cache[u] # NoResponse =>
         /\ lastWriter[u] \in Procs
         /\ cache[u].body = response[lastWriter[u]].body
         /\ cache[u].status = response[lastWriter[u]].status
    /\ stable[u] =>
         /\ \A p, q \in Procs :
              (url[p] = u /\ url[q] = u /\ ret[p].kind = "text" /\ ret[q].kind = "text")
              => ret[p].body = ret[q].body
         /\ cache[u] # NoResponse => cache[u].body = origin[u].body

C7_Witness ==
  \E p, q \in Procs :
    /\ p # q /\ url[p] \in Urls /\ url[p] = url[q] /\ stable[url[p]]
    /\ Has(log[p], "stored") /\ Has(log[q], "stored")
    /\ pc[p] = "done" /\ pc[q] = "done"
    /\ originCalls[url[p]] = 2

\* ------------------------------------------------------ search-hono-docs
\* The notions the claims use, stated apart from the handler's code.
CasePairs ==
  {<<"A", "a">>, <<"P", "p">>, <<"C", "c">>, <<"D", "d">>, <<"G", "g">>,
   <<"N", "n">>, <<"T", "t">>, <<"B", "b">>, <<"I", "i">>,
   <<"S", "s">>, <<"I", "dotless-i">>}
SameLetter(c, d) == c = d \/ <<c, d>> \in CasePairs \/ <<d, c>> \in CasePairs
\* The line contains the query, letter case ignored.
ContainsQuery(line, q) ==
  \E i \in 1..(Len(line) - Len(q) + 1) :
    \A k \in 1..Len(q) : SameLetter(line[i + k - 1], q[k])
\* The line has a parenthesised token that begins with /docs and goes on.
CarriesPathToken(line) ==
  \E i, j \in 1..Len(line) :
    /\ j >= i + 7 /\ line[i] = "(" /\ line[j] = ")"
    /\ SubSeq(line, i + 1, i + 5) = <<"/", "d", "o", "c", "s">>
    /\ \A k \in (i + 6)..(j - 1) : line[k] # ")"
Matching == {i \in 1..Len(lines) : ContainsQuery(lines[i], query)}
Qualifying == {i \in Matching : CarriesPathToken(lines[i])}
KthOf(S, k) == CHOOSE x \in S : Cardinality({y \in S : y <= x}) = k
SearchFinished == spc \in {"render", "done"}

\* C8 as stated (for a limit >= 0): with K >= limit lines containing the query, the search
\* returns exactly `limit` results, from the first `limit` such lines in
\* line order, and examines no line after the one of the last result.
C8_AsStated ==
  (SearchFinished /\ limit >= 0 /\ Cardinality(Matching) >= limit) =>
    /\ Len(results) = limit
    /\ \A k \in 1..Len(results) : hits[k] = KthOf(Matching, k)
    /\ \A i \in examined : Len(hits) > 0 /\ i <= hits[Len(hits)]

\* C8: for a limit >= 0 and K >= limit lines that contain the query and
\* carry a path token, the search returns exactly `limit` results, built
\* from the first `limit` such lines in line order, and examines no line
\* after the one that produced the last result.
C8_SearchLimit ==
  (SearchFinished /\ limit >= 0 /\ Cardinality(Qualifying) >= limit) =>
    /\ Len(results) = limit /\ Len(hits) = limit
    /\ \A k \in 1..limit :
         /\ hits[k] = KthOf(Qualifying, k)
         /\ results[k].title = Trim(lines[hits[k]])
    /\ \A i \in examined : limit > 0 /\ i <= hits[limit]

C8_Witness ==
  /\ SearchFinished /\ limit >= 1 /\ Cardinality(Qualifying) > limit
  /\ Len(results) = limit /\ idx < Len(lines)
  /\ Cardinality(Matching) > Cardinality(Qualifying)

\* C10 as stated: every result comes from a line that carries a path token,
\* and the number of results is min(limit, number of lines that contain the
\* query and carry a path token).
C10_AsStated ==
  SearchFinished =>
    /\ \A k \in 1..Len(hits) : hits[k] \in Qualifying
    /\ Len(results) = Min(limit, Cardinality(Qualifying))

\* C10: a line that contains the query but carries no path token produces
\* no result and does not count toward the limit: every result comes from a
\* line with a token, and the number of results is
\* min(max(limit, 0), number of lines that contain the query and carry a
\* path token).
C10_TokenlessSkipped ==
  SearchFinished =>
    /\ Len(hits) = Len(results)
    /\ \A k \in 1..Len(hits) : hits[k] \in Qualifying
    /\ Len(results) = Min(Max(limit, 0), Cardinality(Qualifying))

C10_Witness ==
  /\ SearchFinished /\ limit >= 2 /\ Len(results) = limit
  /\ \E i \in examined : i \in Matching /\ i \notin Qualifying /\ i < hits[1]

\* -------------------------------------------------- get-hono-page chain
\* C9: pagination round trip. Following nextOffset from offset 0, every
\* page has nextOffset = null exactly when offset + maxChars >= L and
\* offset + maxChars otherwise; the chain ends within L \div maxChars + 1
\* pages, each request starting where the slices so far end; and the
\* slices of the finished chain, concatenated, are the original text.
C9_PaginationRoundTrip ==
  /\ ppc \in {"follow", "done"} =>
       /\ page.nextOffset = {} <=> offset + maxChars >= Len(md)
       /\ page.nextOffset # {} => page.nextOffset = {offset + maxChars}
       /\ acc = SubSeq(md, 1, Len(acc))
  /\ ppc = "request" => offset = Len(acc) /\ offset = pages * maxChars
  /\ pages <= (Len(md) \div maxChars) + 1
  /\ ppc = "done" => acc = md
  /\ ppc # "done" => ENABLED PageNext

C9_Witness ==
  /\ ppc = "done" /\ pages >= 3 /\ acc = md
  /\ Len(md) = pages * maxChars

\* C11: continuation notice. The text of a page is the slice alone when
\* nextOffset is null; otherwise it is the slice followed by the notice,
\* which names offset + maxChars, the total length of the text and, as the
\* offset to use next, offset + maxChars. The text ends with the notice
\* exactly when nextOffset is not null.
C11_ContinuationNotice ==
  ppc \in {"follow", "done"} =>
    LET shown == SubSeq(md, offset + 1, Min(offset + maxChars, Len(md)))
        ending == " to continue. ---"
        endsWithNotice ==
          Len(page.text) > 0 /\ page.text[Len(page.text)] = ending
    IN /\ endsWithNotice <=> page.nextOffset # {}
       /\ page.nextOffset = {} => page.text = shown
       /\ page.nextOffset # {} =>
            page.text = shown \o
              << "\n\n--- Page truncated at ", ToString(offset + maxChars), "/",
                 ToString(Len(md)), " chars. Use offset=",
                 ToString(offset + maxChars), " to continue. ---" >>

C11_Witness ==
  /\ ppc = "follow" /\ offset > 0 /\ page.nextOffset = {offset + maxChars}
  /\ Len(page.text) = maxChars + 7

\* ----------------------------------------------------------- list-sections
Blank(c) == c \in {" ", "\t"}
\* The length of the run of '#' the line starts with.
HashRun(line) ==
  CHOOSE n \in 0..Len(line) :
    /\ \A i \in 1..n : line[i] = "#"
    /\ n = Len(line) \/ line[n + 1] # "#"
\* A run of 2 to 6 '#', a blank, and at least one more character.
IsHeadingLine(line) ==
  /\ HashRun(line) \in 2..6
  /\ Len(line) >= HashRun(line) + 2
  /\ Blank(line[HashRun(line) + 1])
\* A run of 2 to 6 '#', a blank, and text that is not all blanks.
HasHeadingText(line) ==
  /\ IsHeadingLine(line)
  /\ \E j \in (HashRun(line) + 2)..Len(line) : ~Blank(line[j])
Extracted == {secFrom[k] : k \in 1..Len(secFrom)}

LowerLetter(c) ==
  IF \E p \in CasePairs : p[1] = c
    THEN (CHOOSE p \in CasePairs : p[1] = c)[2]
    ELSE c
RECURSIVE SlugScan(_, _, _)
SlugScan(rest, got, gap) ==
  IF rest = <<>> THEN got
  ELSE LET c == LowerLetter(Head(rest)) IN
       IF Blank(c) THEN SlugScan(Tail(rest), got, got # <<>>)
       ELSE IF c \in SlugLetters \cup SlugDigits \cup {"-"}
         THEN SlugScan(Tail(rest), (IF gap THEN got \o <<"-">> ELSE got) \o <<c>>, FALSE)
         ELSE SlugScan(Tail(rest), got, gap)

\* C13: every heading's anchor is '#' followed by its title lower-cased,
\* stripped of characters outside a-z, 0-9, whitespace and hyphen, trimmed,
\* with each whitespace run turned into one hyphen; it has no blank and no
\* upper-case letter, and equal titles have equal anchors.
C13_SlugDerivation ==
  \A k \in 1..Len(sections) :
    /\ sections[k].anchor = <<"#">> \o SlugScan(sections[k].title, <<>>, FALSE)
    /\ \A i \in 1..Len(sections[k].anchor) :
         /\ ~Blank(sections[k].anchor[i])
         /\ ~(\E p \in CasePairs : p[1] = sections[k].anchor[i])
    /\ \A j \in 1..Len(sections) :
         sections[j].title = sections[k].title =>
           sections[j].anchor = sections[k].anchor

C13_Witness ==
  /\ lpc = "done" /\ Len(sections) = 3
  /\ sections[1].title = <<"G", "o", " ", " ", "N", "o", "w", "!">>
  /\ sections[1].anchor = <<"#", "g", "o", "-", "n", "o", "w">>
  /\ sections[2].title = sections[1].title
  /\ sections[3].anchor = <<"#", "a", "-", "-", "-", "b">>

\* ------------------------------------------------------------ search, case
\* C14: a query in any letter case matches every line that contains the
\* same term in any other letter case: every examined line that contains
\* the query, letter case ignored, and carries a path token gives a result.
C14_CaseInsensitive ==
  \A i \in examined : i \in Qualifying => \E k \in 1..Len(hits) : hits[k] = i

\* ------------------------------------------------------------ empty results
\* C15: search-hono-docs returns the "No documentation results found"
\* message whenever no result was collected, in particular when no line
\* contains the query, and otherwise a list numbered 1..n in line order,
\* never an empty text; list-sections returns the "No sections found"
\* message when no heading was extracted.
C15_EmptyResultMessaging ==
  /\ spc = "done" =>
       /\ Len(results) = 0 => sout.kind = "no-results" /\ sout.query = query
       /\ Matching = {} => sout.kind = "no-results"
       /\ Len(results) > 0 =>
            /\ sout.kind = "list" /\ Len(sout.items) = Len(results)
            /\ \A k \in 1..Len(results) :
                 /\ sout.items[k][1] = k
                 /\ sout.items[k][2] = Trim(lines[hits[k]])
                 /\ \A j \in 1..(k - 1) : hits[j] < hits[k]
       /\ sout.kind = "list" => Len(sout.items) > 0
  /\ lpc = "done" =>
       /\ Len(sections) = 0 => lout.kind = "no-sections"
       /\ Len(sections) > 0 => lout.kind = "outline" /\ Len(lout.items) > 0

C15_Witness ==
  \/ /\ spc = "done" /\ query # <<>> /\ Len(lines) = MaxLines
     /\ Matching = {} /\ sout.kind = "no-results"
  \/ /\ lpc = "done" /\ Len(dlines) = MaxDocLines
     /\ Len(sections) = 0 /\ lout.kind = "no-sections"

\* ------------------------------------------------------------ stored entry
\* C16: the entry a successful miss writes under the URL carries
\* Cache-Control 'public, max-age=3600' whatever the origin sent, keeps the
\* status and body of the response the writer fetched, and the writer
\* returns the text of that response.
C16_StoredEntryFreshness ==
  /\ \A u \in Urls :
       cache[u] # NoResponse =>
         /\ cache[u].cc = <<"public", "max-age", 3600>>
         /\ lastWriter[u] \in Procs
         /\ cache[u].status = response[lastWriter[u]].status
         /\ cache[u].body = response[lastWriter[u]].body
         /\ response[lastWriter[u]] \in served[u]
  /\ \A p \in Procs :
       (Has(log[p], "stored") /\ pc[p] = "done") =>
         /\ ret[p].kind = "text"
         /\ ret[p].body = response[p].body
         /\ response[p] \in served[url[p]]

C16_Witness ==
  \E p \in Procs :
    /\ Has(log[p], "stored") /\ pc[p] = "done" /\ lastWriter[url[p]] = p
    /\ response[p].cc = <<"no-store">> /\ response[p].body = "b1"
    /\ cache[url[p]] = [body |-> "b1", status |-> 200,
                        cc |-> <<"public", "max-age", 3600>>]
    /\ ret[p].body = "b1"

\* ------------------------------------------------------------ the /mcp route
\* C17: once module initialisation has finished, the tools and prompts
\* registered on the global server stay what they were: no request and no
\* tool invocation adds, removes or replaces one.
C17_RegistryImmutable ==
  /\ variant = "singleton-transport" =>
       /\ registry.tools = {"add", "multiply", "get-time", "search-hono-docs",
                            "get-hono-page", "list-sections"}
       /\ registry.prompts = {"greeting-template"}
  /\ variant = "transport-per-request" =>
       /\ registry.tools = {"add", "multiply", "get-time"}
       /\ registry.prompts = {"greeting-template"}

C17_Witness ==
  /\ variant = "transport-per-request"
  /\ \E r, q \in Reqs :
       /\ rq[r] = "result" /\ req[r].method = "tools/call"
       /\ rq[q] = "error" /\ req[q].name = "list-sections"

\* C18: in the singleton-transport variant mcpServer.connect(transport) is
\* called at most once whatever the interleaving of POST /mcp requests, no
\* request reaches transport.handleRequest before a connect has completed,
\* and isConnected is true only after a connect has completed.
C18_ConnectOnce ==
  variant = "singleton-transport" =>
    /\ connectCalls <= 1
    /\ \A r \in Reqs : rq[r] \in {"handle", "list", "result", "error"} => connectsDone >= 1
    /\ isConnected => connectsDone >= 1

\* ------------------------------------------------------- suspension points
\* C19 as stated: between the completion of an invocation's origin fetch
\* and the return of its text no other invocation runs.
C19_AsStated ==
  [][\A p \in Procs :
       (pc[p] \in {"put", "text"} /\ Has(log[p], "fetch")) =>
         \A q \in Procs \ {p} : pc'[q] = pc[q]]_vars

\* The moves an invocation makes: each leaves one await and ends at the
\* next one or at the return.
AwaitMoves ==
  { <<"idle", "match">>, <<"match", "fetch">>, <<"match", "text">>,
    <<"match", "done">>, <<"fetch", "put">>, <<"fetch", "text">>,
    <<"fetch", "done">>, <<"put", "text">>, <<"text", "done">> }

\* C19, amended: an invocation is suspended, and others can be interleaved,
\* at four awaits: the cache lookup, the upstream fetch, the cache write
\* (after a successful fetch only) and the reading of the response text.
\* Every step resumes one invocation from one of these awaits and runs it
\* to the next; the cache changes only when a pending write completes.
C19_SuspensionPoints ==
  [][/\ \A p \in Procs :
          pc'[p] # pc[p] =>
            /\ <<pc[p], pc'[p]>> \in AwaitMoves
            /\ \A q \in Procs \ {p} :
                 pc'[q] = pc[q] /\ log'[q] = log[q] /\ ret'[q] = ret[q]
            /\ <<pc[p], pc'[p]>> = <<"fetch", "put">> => Successful(response'[p])
            /\ <<pc[p], pc'[p]>> = <<"fetch", "text">> => ~Successful(response'[p])
            /\ <<pc[p], pc'[p]>> = <<"text", "done">> => ret'[p].kind = "text"
     /\ cache' # cache =>
          \E p \in Procs : <<pc[p], pc'[p]>> = <<"put", "text">>]_vars

C19_Witness ==
  \E p, q \in Procs :
    /\ p # q /\ url[p] \in Urls /\ url[p] = url[q]
    /\ pc[p] = "put" /\ pc[q] = "put"

\* ------------------------------------------------------- pagination, units
\* The number of characters of a text: a surrogate pair is one character.
CharCount(str) == Len(str) - Cardinality({i \in 1..Len(str) : str[i] = "H"})

\* C20: no page boundary of the paginated get-hono-page falls inside a
\* character (every slice is made of whole characters), and the total the
\* notice reports counts characters.
C20_CharacterIndexed ==
  ppc \in {"follow", "done"} =>
    /\ WellFormed(page.slice)
    /\ page.notice # NoNotice => page.notice.total = {CharCount(md)}

\* ------------------------------------------------------------ per-key frame
\* C21: an invocation of fetchHonoDocs for URL u reads and writes only the
\* entry keyed by u. A step changes the entry of a URL only by completing
\* the write of an invocation for that URL, and then no other entry; a
\* lookup hits exactly when the entry of its own URL is present and then
\* takes that entry, whatever is stored under other URLs.
C21_PerKeyFrame ==
  [][/\ \A u \in Urls :
          cache'[u] # cache[u] =>
            /\ \E p \in Procs :
                 url[p] = u /\ pc[p] = "put" /\ pc'[p] = "text"
            /\ \A v \in Urls \ {u} : cache'[v] = cache[v]
     /\ \A p \in Procs :
          /\ (pc[p] \in {"match", "fetch", "text"} /\ pc'[p] # pc[p]) => cache' = cache
          /\ (pc[p] = "match" /\ pc'[p] = "text") =>
               cache[url[p]] # NoResponse /\ response'[p] = cache[url[p]]
          /\ (pc[p] = "match" /\ pc'[p] = "fetch") => cache[url[p]] = NoResponse]_vars

C21_Witness ==
  \E p, q \in Procs :
    /\ url[p] = IndexUrl /\ url[q] = PageUrl
    /\ Has(log[p], "stored") /\ pc[p] = "done"
    /\ Has(log[q], "fail") /\ pc[q] = "done" /\ p \notin prior[q] /\ q \notin prior[p]
    /\ cache[PageUrl] = NoResponse
    /\ cache[IndexUrl] # NoResponse /\ cache[IndexUrl].body = response[p].body

====
